---- MODULE Spec2Model ----
(***************************************************************************)
(* Model of the alx-polly vote-casting and tallying core: the server        *)
(* actions of src/lib/polling.ts and src/app/(auth)/actions.ts running as   *)
(* concurrent requests against the Supabase store (tables polls,            *)
(* poll_options, votes; view poll_option_counts; function cast_vote).       *)
(* The database side (database/schema.sql: row level security, cascades,    *)
(* cast_vote, the view) is not part of the TypeScript sources and is        *)
(* modelled from the specification.                                         *)
(***************************************************************************)
EXTENDS Integers, Sequences, FiniteSets, Bags, TLC

\* ----------------------------------------------------------------- bounds
MaxPolls == 2
MaxVotes == 2

\* ------------------------------------------------------ program constants
MinQuestionLen == 1
MaxQuestionLen == 280
MinOptionLen == 1
MaxOptionLen == 140
MinOptions == 2
MaxOptions == 20

\* ------------------------------------------------------------- vocabulary
Users == {"u1", "u2"}
NoUser == "anonymous"
Sessions == Users \cup {NoUser}
Procs == {1, 2}
NULL == "null"
NoError == "ok"
PollIds == 1..MaxPolls

\* A string is a sequence of characters.
Rep(c, n) == [i \in 1..n |-> c]

\* String.prototype.trim as zod's .trim() applies it.
RECURSIVE TrimLeft(_)
TrimLeft(s) ==
  IF s # << >> /\ Head(s) = " " THEN TrimLeft(Tail(s)) ELSE s

RECURSIVE TrimRight(_)
TrimRight(s) ==
  IF s # << >> /\ s[Len(s)] = " " THEN TrimRight(SubSeq(s, 1, Len(s) - 1)) ELSE s

Trim(s) == TrimRight(TrimLeft(s))

\* ------------------------------------------------------------------ state
VARIABLES
  polls,       \* rows of table polls: [id, owner_id, question, title, description]
  options,     \* rows of table poll_options: [id, poll_id, idx, label]
  votes,       \* rows of table votes, a bag of [poll_id, option_id, voter_uid,
               \* anon_fingerprint]: the surrogate id is what tells equal rows apart
  nextPollId,  \* generator of fresh poll ids (uuid default of polls.id)
  calls,       \* the server-action invocations in flight, one slot per request
  page         \* one open poll page: its React state and its running handlers

vars == <<polls, options, votes, nextPollId, calls, page>>
store == <<polls, options, votes>>

\* ------------------------------------------------------- request inputs
QOk == <<"Q">>
QPadded == <<" ", "Q", " ">>
QBlank == <<" ">>
QLong == Rep("q", MaxQuestionLen + 1)
QNew == <<"R">>
QEmpty == << >>
TextA == <<"A">>
TextB == <<" ", "B">>
TextC == <<"C">>
TextLong == Rep("t", MaxOptionLen + 1)

NoData == [question |-> QEmpty, options |-> << >>]
NullDesc == <<"null">>
UndefinedDesc == <<"undefined">>
BogusOption == <<0, 0>>

\* The createPoll requests that are issued: who calls, with which form data.
CreateRequests ==
  { [user |-> "u1",   data |-> [question |-> QPadded, options |-> <<TextA, TextB>>]],
    [user |-> "u2",   data |-> [question |-> QOk, options |-> <<TextA, TextB, TextC>>]],
    [user |-> "u1",   data |-> [question |-> QBlank, options |-> <<TextA, TextB>>]],
    [user |-> "u1",   data |-> [question |-> QLong, options |-> <<TextA, TextB>>]],
    [user |-> "u1",   data |-> [question |-> QOk, options |-> <<TextA>>]],
    [user |-> "u1",   data |-> [question |-> QOk, options |-> Rep(TextA, MaxOptions + 1)]],
    [user |-> "u1",   data |-> [question |-> QOk, options |-> <<TextA, QBlank>>]],
    [user |-> "u1",   data |-> [question |-> QOk, options |-> <<TextA, TextLong>>]],
    [user |-> NoUser, data |-> [question |-> QOk, options |-> <<TextA, TextB>>]],
    [user |-> NoUser, data |-> [question |-> QBlank, options |-> <<TextA>>]] }

\* The updatePollQuestion requests that are issued (on any poll id).
UpdateRequests ==
  { [user |-> "u1",   question |-> QNew,   description |-> <<"D">>],
    [user |-> "u2",   question |-> QEmpty, description |-> UndefinedDesc],
    [user |-> NoUser, question |-> QNew,   description |-> <<"D">>] }

\* Errors a store round trip can end with on its own (network, outage); the
\* second one is an error object that carries no message.
TransportErrors == {"StoreError", ""}

\* A question schema without .trim().
ValidQuestionUntrimmed(q) ==
  /\ Len(q) >= MinQuestionLen
  /\ Len(q) <= MaxQuestionLen

\* ---------------------------------------------------- createPollSchema (zod)
ValidQuestion(q) ==
  /\ Len(Trim(q)) >= MinQuestionLen
  /\ Len(Trim(q)) <= MaxQuestionLen

ValidOptionText(t) ==
  /\ Len(Trim(t)) >= MinOptionLen
  /\ Len(Trim(t)) <= MaxOptionLen

ValidOptions(os) ==
  /\ Len(os) >= MinOptions
  /\ Len(os) <= MaxOptions
  /\ \A i \in 1..Len(os) : ValidOptionText(os[i])

\* createPollSchema.safeParse(data).success
SafeParseSuccess(data) == ValidQuestion(data.question) /\ ValidOptions(data.options)

\* validatedFields.data: the trimmed values
SafeParseData(data) ==
  [question |-> Trim(data.question),
   options  |-> [i \in 1..Len(data.options) |-> Trim(data.options[i])]]

\* ------------------------------------------------------------ the store
\* auth.uid() of a session: null for a visitor that is not logged in.
AuthUid(user) == IF user = NoUser THEN NULL ELSE user

PollExists(pollId) == \E r \in polls : r.id = pollId
PollRow(pollId) == CHOOSE r \in polls : r.id = pollId
OptionsOf(pollId) == {o \in options : o.poll_id = pollId}
VoteRows == BagToSet(votes)
VotesOf(pollId) == {v \in VoteRows : v.poll_id = pollId}
\* The number of rows of votes among the (distinct) rows rs.
CountRows(rs) == BagCardinality([v \in rs \cap VoteRows |-> votes[v]])

\* The dedup key of a vote: the user id when present, else the fingerprint.
VoterIdentity(v) == IF v.voter_uid # NULL THEN v.voter_uid ELSE v.anon_fingerprint

\* Row level security on polls: only the owner's session may update or
\* delete a row.
RlsOwnerOnly(row, user) == row.owner_id = AuthUid(user)

\* A foreign key on option_id alone: the option may be any poll's.
OptionOfAnyPoll(pollId, optionId) ==
  \E o \in options : o.id = optionId

\* Foreign key votes_option_belongs_to_poll: (poll_id, option_id) must be a
\* row of poll_options.
OptionBelongsToPoll(pollId, optionId) ==
  \E o \in options : o.id = optionId /\ o.poll_id = pollId

\* A store without the unique constraint.
UniqueViolationNever(pollId, identity) == FALSE

\* Unique constraint on (poll_id, voter identity).
UniqueViolation(pollId, identity) ==
  \E v \in VoteRows : v.poll_id = pollId /\ VoterIdentity(v) = identity

\* A cast_vote that does not ask for a voter identity.
CastVoteErrorAnyIdentity(pollId, optionId, user, fingerprint) ==
  LET identity == IF AuthUid(user) # NULL THEN AuthUid(user) ELSE fingerprint IN
  IF ~OptionBelongsToPoll(pollId, optionId) THEN "InvalidOption"
  ELSE IF UniqueViolation(pollId, identity) THEN "AlreadyVoted"
  ELSE NoError

\* The outcome of function cast_vote(p_poll_id, p_option_id, p_anon_fingerprint)
\* for a session: the error it raises, or NoError.
CastVoteError(pollId, optionId, user, fingerprint) ==
  LET identity == IF AuthUid(user) # NULL THEN AuthUid(user) ELSE fingerprint IN
  IF ~OptionBelongsToPoll(pollId, optionId) THEN "InvalidOption"
  ELSE IF identity = NULL THEN "StoreError"
  ELSE IF UniqueViolation(pollId, identity) THEN "AlreadyVoted"
  ELSE NoError

\* The row cast_vote inserts.
NewVote(pollId, optionId, user, fingerprint) ==
  [poll_id |-> pollId, option_id |-> optionId,
   voter_uid |-> AuthUid(user), anon_fingerprint |-> fingerprint]

\* A cast_vote that replaces the voter's row when it reports AlreadyVoted.
CastVoteRowsUpsert(pollId, optionId, user, fingerprint, err) ==
  IF err = NoError
    THEN votes (+) SetToBag({NewVote(pollId, optionId, user, fingerprint)})
    ELSE IF err = "AlreadyVoted"
      THEN SetToBag({NewVote(pollId, optionId, user, fingerprint)}) (+)
           [v \in {w \in VoteRows : ~(w.poll_id = pollId /\ w.voter_uid = AuthUid(user))}
              |-> votes[v]]
      ELSE votes

\* The rows of votes after cast_vote, given the error it ended with.
CastVoteRows(pollId, optionId, user, fingerprint, err) ==
  IF err = NoError
    THEN votes (+) SetToBag({NewVote(pollId, optionId, user, fingerprint)})
    ELSE votes

\* The poll ids requests name: those of the existing polls, and one more id
\* that names no poll before its creation and after its deletion.
RequestPollIds == {r.id : r \in polls} \cup {MaxPolls}

\* The option ids votes are cast for: the first two options of each poll, and
\* an id that is no option's.
RequestOptionIds == {o.id : o \in {x \in options : x.idx <= 1}} \cup {BogusOption}

\* ------------------------------------------------------------------ reads
\* JavaScript Map, as the aggregation code uses it.
EmptyMap == [k \in {} |-> 0]
MapSet(m, k, v) == [x \in DOMAIN m \cup {k} |-> IF x = k THEN v ELSE m[x]]
MapGet(m, k, default) == IF k \in DOMAIN m THEN m[k] ELSE default

\* .order("idx", { ascending: true }) over rows of poll_options.
RECURSIVE OrderByIdx(_)
OrderByIdx(rs) ==
  IF rs = {} THEN << >>
  ELSE LET first == CHOOSE r \in rs : \A x \in rs : r.idx <= x.idx
       IN <<first>> \o OrderByIdx(rs \ {first})

\* .order("created_at", { ascending: false }) over rows of polls; ids are
\* handed out in creation order.
RECURSIVE OrderByCreatedDesc(_)
OrderByCreatedDesc(rs) ==
  IF rs = {} THEN << >>
  ELSE LET first == CHOOSE r \in rs : \A x \in rs : r.id >= x.id
       IN <<first>> \o OrderByCreatedDesc(rs \ {first})

\* View poll_option_counts: one row per option, with the number of votes
\* that name it (options without votes are listed with 0).
PollOptionCounts ==
  {[poll_id |-> o.poll_id, option_id |-> o.id, idx |-> o.idx,
    vote_count |-> CountRows({v \in VoteRows :
                                v.poll_id = o.poll_id /\ v.option_id = o.id})] :
     o \in options}

\* Function get_poll_details(p_poll_id, p_user_id): the poll, its options in
\* idx order with their counts, the total, and the viewer's flags.
NullDetails ==
  [id |-> 0, question |-> QEmpty, description |-> NullDesc, options |-> << >>,
   totalVotes |-> 0, hasVoted |-> FALSE, isOwner |-> FALSE]

get_poll_details(pollId, userId) ==
  IF ~PollExists(pollId) THEN NullDetails
  ELSE LET poll == PollRow(pollId)
           opts == OrderByIdx(OptionsOf(pollId))
       IN [id |-> poll.id, question |-> poll.question, description |-> poll.description,
           options |-> [i \in 1..Len(opts) |->
                          [id |-> opts[i].id, text |-> opts[i].label,
                           votes |-> CountRows({v \in VotesOf(pollId) :
                                                  v.option_id = opts[i].id})]],
           totalVotes |-> CountRows(VotesOf(pollId)),
           hasVoted |-> userId # NULL /\ \E v \in VotesOf(pollId) : v.voter_uid = userId,
           isOwner |-> userId # NULL /\ poll.owner_id = userId]

\* Function get_polls_with_counts(p_user_id): the user's polls, newest first,
\* each with the number of votes that reference it.
get_polls_with_counts(userId) ==
  LET mine == OrderByCreatedDesc({r \in polls : r.owner_id = userId})
  IN [i \in 1..Len(mine) |->
        [id |-> mine[i].id, question |-> mine[i].question,
         totalVotes |-> CountRows(VotesOf(mine[i].id))]]

\* A getPollById that does not pass the caller's id on.
getPollByIdAsGuest(pollId, user, err) ==
  IF err # NoError THEN NullDetails ELSE get_poll_details(pollId, NULL)

\* getPollById of lib/polling.ts: getUser, fetchPollDetails(pollId, user?.id),
\* null on an error or when no poll came back.
getPollById(pollId, user, err) ==
  IF err # NoError THEN NullDetails ELSE get_poll_details(pollId, AuthUid(user))

\* getPolls of lib/polling.ts: [] without a user or on an error, else the rows
\* of fetchPollsByOwner(user.id).
getPolls(user, err) ==
  IF user = NoUser \/ err # NoError THEN << >> ELSE get_polls_with_counts(user)

\* A query's rows in the order the store returns them (unspecified).
RECURSIVE AsList(_)
AsList(rs) ==
  IF rs = {} THEN << >>
  ELSE LET first == CHOOSE r \in rs : TRUE IN <<first>> \o AsList(rs \ {first})

\* An aggregation that keeps the last row's count of each poll instead of
\* the sum.
RECURSIVE VoteCountsByPollOverwrite(_, _)
VoteCountsByPollOverwrite(rows, m) ==
  IF rows = << >> THEN m
  ELSE VoteCountsByPollOverwrite(Tail(rows),
         MapSet(m, Head(rows).poll_id, Head(rows).vote_count))

\* Earlier getPolls: voteCountsMap.set(poll_id, currentVotes + vote_count)
\* over the rows of poll_option_counts.
RECURSIVE VoteCountsByPollSum(_, _)
VoteCountsByPollSum(rows, m) ==
  IF rows = << >> THEN m
  ELSE VoteCountsByPollSum(Tail(rows),
         MapSet(m, Head(rows).poll_id,
                MapGet(m, Head(rows).poll_id, 0) + Head(rows).vote_count))

VoteCountsByPoll(rows, m) == VoteCountsByPollSum(rows, m)

\* Earlier getPollById: voteCountsMap.set(option_id, vote_count).
RECURSIVE VoteCountsByOption(_, _)
VoteCountsByOption(rows, m) ==
  IF rows = << >> THEN m
  ELSE VoteCountsByOption(Tail(rows),
         MapSet(m, Head(rows).option_id, Head(rows).vote_count))

\* (optionsData || []).reduce((sum, option) => sum + (map.get(option.id) || 0), 0)
RECURSIVE ReduceVotes(_, _)
ReduceVotes(opts, m) ==
  IF opts = << >> THEN 0
  ELSE MapGet(m, Head(opts).id, 0) + ReduceVotes(Tail(opts), m)

\* A formatting that lists only the options that have votes.
FormatOptionsVotedOnly(opts, m) ==
  LET kept == SelectSeq(opts, LAMBDA o : MapGet(m, o.id, 0) > 0)
  IN [i \in 1..Len(kept) |->
        [id |-> kept[i].id, text |-> kept[i].label, votes |-> MapGet(m, kept[i].id, 0)]]

\* (optionsData || []).map(option => ({id, text: label, votes: map.get(id) || 0}))
FormatOptions(opts, m) ==
  [i \in 1..Len(opts) |->
     [id |-> opts[i].id, text |-> opts[i].label, votes |-> MapGet(m, opts[i].id, 0)]]

\* A getPolls that goes on to the store without looking at the user.
getPollsCallUnchecked(user, getUserError, err) ==
  [result |-> IF err # NoError THEN << >> ELSE get_polls_with_counts(user),
   queries |-> <<"get_polls_with_counts">>]

\* getPolls of lib/polling.ts as one call: what it returns and the store
\* calls it issues, given whether auth.getUser reported an error.
getPollsCall(user, getUserError, err) ==
  IF getUserError \/ user = NoUser
    THEN [result |-> << >>, queries |-> << >>]
    ELSE [result |-> getPolls(user, err), queries |-> <<"get_polls_with_counts">>]

\* An earlier getPolls without its filter on owner_id.
getPollsLegacyOfAll(user, countsErr) ==
  IF user = NoUser THEN << >>
  ELSE LET pollsData == OrderByCreatedDesc(polls)
       IN [i \in 1..Len(pollsData) |->
             [id |-> pollsData[i].id, question |-> pollsData[i].question,
              totalVotes |-> CountRows(VotesOf(pollsData[i].id))]]

\* An earlier getPolls that gives up when the vote count query fails.
getPollsLegacyNoFallback(user, countsErr) ==
  IF user = NoUser \/ countsErr # NoError THEN << >>
  ELSE LET pollsData == OrderByCreatedDesc({r \in polls : r.owner_id = user})
       IN [i \in 1..Len(pollsData) |->
             [id |-> pollsData[i].id, question |-> pollsData[i].question,
              totalVotes |-> CountRows(VotesOf(pollsData[i].id))]]

\* Earlier getPolls (several queries), read against one store state;
\* countsErr is the error of the vote count query.
getPollsLegacy(user, countsErr) ==
  IF user = NoUser THEN << >>
  ELSE LET pollsData == OrderByCreatedDesc({r \in polls : r.owner_id = user})
           pollIds == {pollsData[i].id : i \in 1..Len(pollsData)}
           voteCountsRaw == AsList({c \in PollOptionCounts : c.poll_id \in pollIds})
           voteCountsMap == VoteCountsByPoll(voteCountsRaw, EmptyMap)
       IN [i \in 1..Len(pollsData) |->
             [id |-> pollsData[i].id, question |-> pollsData[i].question,
              totalVotes |-> IF countsErr # NoError THEN 0
                             ELSE MapGet(voteCountsMap, pollsData[i].id, 0)]]

\* Earlier getPolls as one call: the polls query, then (when it returned
\* rows) the vote count query.
getPollsLegacyCall(user, getUserError, pollsErr, countsErr) ==
  IF getUserError \/ user = NoUser
    THEN [result |-> << >>, queries |-> << >>]
  ELSE IF pollsErr # NoError \/ getPollsLegacy(user, countsErr) = << >>
    THEN [result |-> << >>, queries |-> <<"polls">>]
  ELSE [result |-> getPollsLegacy(user, countsErr),
        queries |-> <<"polls", "poll_option_counts">>]

\* A vote lookup without its filter on poll_id.
HasVotedOnAnyPoll(pollId, user) ==
  /\ user # NoUser
  /\ CountRows({v \in VoteRows : v.voter_uid = user}) = 1

\* Earlier getPollById: if (user) { votes .eq("poll_id", pollId)
\* .eq("voter_uid", user.id) .maybeSingle() }; maybeSingle yields the row
\* when exactly one matches, null for none and an error for several.
HasVotedLegacy(pollId, user) ==
  /\ user # NoUser
  /\ CountRows({v \in VotesOf(pollId) : v.voter_uid = user}) = 1

\* An owner flag that is set for every logged-in viewer.
IsOwnerWhenLoggedIn(poll, user) == user # NoUser

\* Earlier getPollById: user ? user.id === poll.owner_id : false
IsOwnerLegacy(poll, user) ==
  IF user # NoUser THEN user = poll.owner_id ELSE FALSE

\* Earlier getPollById (several queries), read against one store state.
getPollByIdLegacy(pollId, user, countsErr) ==
  IF ~PollExists(pollId) THEN NullDetails
  ELSE LET poll == PollRow(pollId)
           hasVoted == HasVotedLegacy(pollId, user)
           isOwner == IsOwnerLegacy(poll, user)
           optionsData == OrderByIdx(OptionsOf(pollId))
           optionIds == {optionsData[i].id : i \in 1..Len(optionsData)}
           voteCountsRaw == AsList({c \in PollOptionCounts : c.option_id \in optionIds})
           voteCountsMap == IF countsErr # NoError THEN EmptyMap
                            ELSE VoteCountsByOption(voteCountsRaw, EmptyMap)
       IN [id |-> poll.id, question |-> poll.question, description |-> poll.description,
           options |-> FormatOptions(optionsData, voteCountsMap),
           totalVotes |-> ReduceVotes(optionsData, voteCountsMap),
           hasVoted |-> hasVoted, isOwner |-> isOwner]

\* ------------------------------------------------------ server actions
NoRes == [success |-> FALSE, message |-> "none"]
IdleCall ==
  [op |-> "idle", pc |-> "idle", user |-> NoUser, pollId |-> 0,
   optionId |-> BogusOption, hadVoted |-> FALSE, data |-> NoData, res |-> NoRes,
   error |-> NoError, revalidated |-> {}]

\* A slot is free before its first request and once a response is delivered.
Idle(p) == calls[p].pc \in {"idle", "done"}

\* The cache paths of revalidatePath: the list "/polls" and the page
\* "/polls/{pollId}".
PollsPath == <<"/polls">>
PollPath(pollId) == <<"/polls", pollId>>

\* A revalidation made whatever the store call returned.
RevalidateAlways(err, paths) == paths

\* if (error) { return ... }  revalidatePath(...): the paths invalidated by
\* an action, given the error of its store call.
Revalidate(err, paths) == IF err = NoError THEN paths ELSE {}

\* An action that reports success whatever its store call returned.
ActionResultIgnoringError(err, fallback, okMessage) ==
  [success |-> TRUE, message |-> okMessage]

\* The { success, message } a mutating action returns for the error of its
\* store call: error.message || fallback on failure.
ActionResult(err, fallback, okMessage) ==
  IF err # NoError
    THEN [success |-> FALSE, message |-> IF err = "" THEN fallback ELSE err]
    ELSE [success |-> TRUE, message |-> okMessage]

\* createPoll: options.map((option, index) => ({label, poll_id, idx}))
pollOptions(opts, pollId) ==
  {[id |-> <<pollId, i - 1>>, poll_id |-> pollId, idx |-> i - 1, label |-> opts[i]] :
     i \in 1..Len(opts)}

\* ------------------------------------------------------------ poll page
\* PollPage (app/polls/[id]/page.tsx): the poll it shows (params.id), the
\* handlers that can run on it (the fetch of the mount effect, and one
\* handleVote per request slot), and the local variables of a getPollById
\* that is under way.
PagePoll == MaxPolls
Mount == 0
Handlers == {Mount} \cup Procs
NoPoll ==
  [id |-> 0, owner_id |-> NoUser, question |-> QEmpty, title |-> QEmpty,
   description |-> NullDesc]
IdleHandler ==
  [pc |-> "idle", poll |-> NoPoll, hasVoted |-> FALSE, isOwner |-> FALSE,
   optionsData |-> << >>]

\* The useState initial values, and the mount effect's fetchPoll up to its
\* first await: setLoading(true), setError(null), setVoteMessage(null).
PageLoad(session) ==
  [session |-> session, pollData |-> NullDetails, loading |-> TRUE, error |-> FALSE,
   selectedOption |-> BogusOption, voted |-> FALSE, isCastingVote |-> FALSE,
   voteMessage |-> NULL,
   h |-> [x \in Handlers |->
            IF x = Mount THEN [IdleHandler EXCEPT !.pc = "queryPoll"] ELSE IdleHandler]]

Init ==
  /\ polls = {}
  /\ options = {}
  /\ votes = EmptyBag
  /\ nextPollId = 1
  /\ calls = [p \in Procs |-> IdleCall]
  /\ page = PageLoad(NoUser)

\* A createPoll that validates first and only then looks for the user.
CreatePollBeginValidatesFirst(p) ==
  /\ Idle(p)
  /\ \E req \in CreateRequests :
       calls' = [calls EXCEPT ![p] =
         IF ~SafeParseSuccess(req.data)
           THEN [IdleCall EXCEPT !.op = "createPoll", !.pc = "done", !.user = req.user,
                   !.data = req.data,
                   !.res = [success |-> FALSE, message |-> "errors"]]
         ELSE IF req.user = NoUser
           THEN [IdleCall EXCEPT !.op = "createPoll", !.pc = "done", !.user = req.user,
                   !.data = req.data,
                   !.res = [success |-> FALSE, message |-> "redirect:/login"]]
         ELSE [IdleCall EXCEPT !.op = "createPoll", !.pc = "insertPoll",
                   !.user = req.user, !.data = SafeParseData(req.data)]]
  /\ UNCHANGED <<polls, options, votes, nextPollId>>

\* createPoll up to its first store call: getUser, the login redirect, safeParse.
CreatePollBegin(p) ==
  /\ Idle(p)
  /\ \E req \in CreateRequests :
       LET user == req.user
           data == req.data
       IN calls' = [calls EXCEPT ![p] =
         IF user = NoUser
           THEN [IdleCall EXCEPT !.op = "createPoll", !.pc = "done", !.user = user,
                   !.data = data,
                   !.res = [success |-> FALSE, message |-> "redirect:/login"]]
         ELSE IF ~SafeParseSuccess(data)
           THEN [IdleCall EXCEPT !.op = "createPoll", !.pc = "done", !.user = user,
                   !.data = data,
                   !.res = [success |-> FALSE, message |-> "errors"]]
         ELSE [IdleCall EXCEPT !.op = "createPoll", !.pc = "insertPoll", !.user = user,
                   !.data = SafeParseData(data)]]
  /\ UNCHANGED <<polls, options, votes, nextPollId>>

\* createPoll: supabase.from("polls").insert([...]).select().single()
CreatePollInsertPoll(p) ==
  /\ calls[p].op = "createPoll" /\ calls[p].pc = "insertPoll"
  /\ \/ /\ calls' = [calls EXCEPT ![p].pc = "done",
                       ![p].res = [success |-> FALSE, message |-> "Failed to create poll."]]
        /\ UNCHANGED <<polls, options, votes, nextPollId>>
     \/ /\ nextPollId <= MaxPolls
        /\ polls' = polls \cup
             {[id |-> nextPollId, owner_id |-> calls[p].user,
               question |-> calls[p].data.question, title |-> calls[p].data.question,
               description |-> NullDesc]}
        /\ nextPollId' = nextPollId + 1
        /\ calls' = [calls EXCEPT ![p].pc = "insertOptions", ![p].pollId = nextPollId]
        /\ UNCHANGED <<options, votes>>

\* An option insert on a store without the foreign key to polls.
CreatePollInsertOptionsNoFk(p) ==
  /\ calls[p].op = "createPoll" /\ calls[p].pc = "insertOptions"
  /\ options' = options \cup pollOptions(calls[p].data.options, calls[p].pollId)
  /\ calls' = [calls EXCEPT ![p].pc = "done",
                 ![p].res = [success |-> TRUE, message |-> "redirect:/polls/id"]]
  /\ UNCHANGED <<polls, votes, nextPollId>>

\* createPoll: supabase.from("poll_options").insert(pollOptions), then the
\* revalidation and the redirect to the new poll.
CreatePollInsertOptions(p) ==
  /\ calls[p].op = "createPoll" /\ calls[p].pc = "insertOptions"
  /\ \/ /\ calls' = [calls EXCEPT ![p].pc = "done",
                       ![p].res = [success |-> FALSE,
                                   message |-> "Failed to create poll options."]]
        /\ UNCHANGED <<polls, options, votes, nextPollId>>
     \/ /\ PollExists(calls[p].pollId)
        /\ options' = options \cup pollOptions(calls[p].data.options, calls[p].pollId)
        /\ calls' = [calls EXCEPT ![p].pc = "done",
                       ![p].res = [success |-> TRUE, message |-> "redirect:/polls/id"],
                       ![p].revalidated = {PollsPath}]
        /\ UNCHANGED <<polls, votes, nextPollId>>

\* The value column idx of poll_options takes when an insert leaves it out
\* (Insert.idx is optional in lib/types.ts).
DefaultIdx == 0

\* The createPoll that maps options to {label, poll_id} only.
pollOptionsNoIdx(opts, pollId) ==
  {[id |-> <<pollId, i - 1>>, poll_id |-> pollId, idx |-> DefaultIdx, label |-> opts[i]] :
     i \in 1..Len(opts)}

\* That createPoll from its options insert on; up to there it reads as the
\* one above.
CreatePollInsertOptionsNoIdx(p) ==
  /\ calls[p].op = "createPoll" /\ calls[p].pc = "insertOptions"
  /\ \/ /\ calls' = [calls EXCEPT ![p].pc = "done",
                       ![p].res = [success |-> FALSE,
                                   message |-> "Failed to create poll options."]]
        /\ UNCHANGED <<polls, options, votes, nextPollId>>
     \/ /\ PollExists(calls[p].pollId)
        /\ options' = options \cup pollOptionsNoIdx(calls[p].data.options, calls[p].pollId)
        /\ calls' = [calls EXCEPT ![p].pc = "done",
                       ![p].res = [success |-> TRUE, message |-> "redirect:/polls/id"],
                       ![p].revalidated = {PollsPath}]
        /\ UNCHANGED <<polls, votes, nextPollId>>

\* castVote up to its store call: cookies, createClient, auth.getUser.
\* hadVoted notes whether the caller's vote on the poll existed when the
\* request came in; the code does not read it.
CastVoteBegin(p) ==
  /\ Idle(p)
  /\ \E user \in Sessions, pollId \in RequestPollIds,
        optionId \in RequestOptionIds :
       calls' = [calls EXCEPT ![p] =
         [IdleCall EXCEPT !.op = "castVote", !.pc = "rpc", !.user = user,
            !.pollId = pollId, !.optionId = optionId,
            !.hadVoted = UniqueViolation(pollId, AuthUid(user))]]
  /\ UNCHANGED <<polls, options, votes, nextPollId>>

\* castVote: supabase.rpc("cast_vote", {p_poll_id, p_option_id}) and the return.
CastVoteRpc(p) ==
  /\ calls[p].op = "castVote" /\ calls[p].pc = "rpc"
  /\ \E err \in TransportErrors \cup
                 {CastVoteError(calls[p].pollId, calls[p].optionId, calls[p].user, NULL)} :
       /\ err = NoError => BagCardinality(votes) < MaxVotes
       /\ votes' = CastVoteRows(calls[p].pollId, calls[p].optionId, calls[p].user, NULL, err)
       /\ calls' = [calls EXCEPT ![p].pc = "done",
                      ![p].error = err,
                      ![p].res = ActionResult(err, "Failed to cast vote.",
                                              "Vote cast successfully!"),
                      ![p].revalidated =
                        Revalidate(err, {PollPath(calls[p].pollId), PollsPath})]
  /\ UNCHANGED <<polls, options, nextPollId>>

\* A delete whose filter matches no row.
DeleteMatchNone(row, pollId) == FALSE

\* deleteVote: .from("polls").delete().match({ id: pollId })
DeleteMatch(row, pollId) == row.id = pollId

\* An update without its filter on the poll id.
UpdateMatchAll(row, pollId) == TRUE

\* updatePollQuestion: .from("polls").update({...}).eq("id", pollId)
UpdateMatch(row, pollId) == row.id = pollId

\* An update payload that also clears the owner.
UpdatePayloadClearsOwner(row, newQuestion, newDescription) ==
  [row EXCEPT !.question = newQuestion, !.owner_id = NULL]

\* The update payload {question: newQuestion, description: newDescription}:
\* an undefined description is left out of the request body.
UpdatePayload(row, newQuestion, newDescription) ==
  [row EXCEPT !.question = newQuestion,
              !.description = IF newDescription = UndefinedDesc
                                THEN row.description ELSE newDescription]

\* A deleteVote that reports a failure when its delete matched no row.
DeleteVoteNotFound(p) ==
  /\ Idle(p)
  /\ \E user \in Sessions, pollId \in RequestPollIds, err \in {"StoreError", NoError} :
       LET gone == IF err = NoError
                     THEN {r \in polls : DeleteMatch(r, pollId) /\ RlsOwnerOnly(r, user)}
                     ELSE {}
           goneIds == {r.id : r \in gone}
           seen == IF err = NoError /\ gone = {} THEN "NotFound" ELSE err
       IN /\ polls' = polls \ gone
          /\ options' = {o \in options : o.poll_id \notin goneIds}
          /\ votes' = [v \in {w \in VoteRows : w.poll_id \notin goneIds} |-> votes[v]]
          /\ calls' = [calls EXCEPT ![p] =
               [IdleCall EXCEPT !.op = "deleteVote", !.pc = "done", !.user = user,
                  !.pollId = pollId,
                  !.error = err,
                  !.res = ActionResult(seen, "Failed to delete poll.",
                                       "Poll deleted successfully."),
                  !.revalidated = Revalidate(seen, {PollsPath})]]
  /\ UNCHANGED nextPollId

\* deleteVote(pollId): one store call; deleting a poll cascades to its
\* options and votes.
DeleteVote(p) ==
  /\ Idle(p)
  /\ \E user \in Sessions, pollId \in RequestPollIds, err \in {"StoreError", NoError} :
       LET gone == IF err = NoError
                     THEN {r \in polls : DeleteMatch(r, pollId) /\ RlsOwnerOnly(r, user)}
                     ELSE {}
           goneIds == {r.id : r \in gone}
       IN /\ polls' = polls \ gone
          /\ options' = {o \in options : o.poll_id \notin goneIds}
          /\ votes' = [v \in {w \in VoteRows : w.poll_id \notin goneIds} |-> votes[v]]
          /\ calls' = [calls EXCEPT ![p] =
               [IdleCall EXCEPT !.op = "deleteVote", !.pc = "done", !.user = user,
                  !.pollId = pollId,
                  !.error = err,
                  !.res = ActionResult(err, "Failed to delete poll.",
                                       "Poll deleted successfully."),
                  !.revalidated = Revalidate(err, {PollsPath})]]
  /\ UNCHANGED nextPollId

\* updatePollQuestion(pollId, newQuestion, newDescription): one store call.
UpdatePollQuestion(p) ==
  /\ Idle(p)
  /\ \E new \in UpdateRequests, pollId \in RequestPollIds,
        err \in {"StoreError", NoError} :
       /\ polls' = IF err = NoError
                     THEN {IF UpdateMatch(r, pollId) /\ RlsOwnerOnly(r, new.user)
                             THEN UpdatePayload(r, new.question, new.description)
                             ELSE r : r \in polls}
                     ELSE polls
       /\ calls' = [calls EXCEPT ![p] =
            [IdleCall EXCEPT !.op = "updatePollQuestion", !.pc = "done", !.user = new.user,
               !.pollId = pollId,
               !.data = [question |-> new.question, options |-> << >>],
               !.error = err,
               !.res = ActionResult(err, "Failed to update poll.",
                                    "Poll updated successfully."),
               !.revalidated = Revalidate(err, {PollPath(pollId), PollsPath})]]
  /\ UNCHANGED <<options, votes, nextPollId>>

\* ------------------------------------------------------ poll page: handlers
\* What the page renders: "Loading poll..." while loading, the error text on
\* an error or without data, else the poll card; the Submit Vote button is
\* part of the card while voted is false.
Rendered == ~page.loading /\ ~page.error /\ page.pollData # NullDetails
SubmitOffered == Rendered /\ ~page.voted
VotingForm == Rendered /\ ~(page.voted \/ page.isCastingVote)

\* fetchPoll after its await: setPollData and setVoted(data.hasVoted), or
\* setError; finally setLoading(false). When handleVote awaited it, handleVote
\* goes on to setIsCastingVote(false).
fetchPollEnd(h, data) ==
  LET p1 == IF data # NullDetails
              THEN [page EXCEPT !.pollData = data, !.voted = data.hasVoted]
              ELSE [page EXCEPT !.error = TRUE]
      p2 == [p1 EXCEPT !.loading = FALSE, !.h[h] = IdleHandler]
  IN IF h = Mount THEN p2 ELSE [p2 EXCEPT !.isCastingVote = FALSE]

\* The errors the queries of getPollById can end with.
QueryErrors == {NoError, "StoreError"}

\* getPollById (several queries), first query: the poll row, .single().
getPollByIdPoll(h) ==
  /\ page.h[h].pc = "queryPoll"
  /\ \E pollError \in QueryErrors :
       page' = IF pollError # NoError \/ ~PollExists(PagePoll)
                 THEN fetchPollEnd(h, NullDetails)
                 ELSE [page EXCEPT !.h[h].pc = "queryVote",
                                   !.h[h].poll = PollRow(PagePoll)]
  /\ UNCHANGED <<polls, options, votes, nextPollId, calls>>

\* getPollById, second query: the user's vote (.maybeSingle()), whose error
\* is only logged; and isOwner.
getPollByIdVote(h) ==
  /\ page.h[h].pc = "queryVote"
  /\ \E voteError \in QueryErrors :
       page' = [page EXCEPT
                  !.h[h].pc = "queryOptions",
                  !.h[h].hasVoted = /\ page.session # NoUser
                                    /\ voteError = NoError
                                    /\ HasVotedLegacy(PagePoll, page.session),
                  !.h[h].isOwner = IsOwnerLegacy(page.h[h].poll, page.session)]
  /\ UNCHANGED <<polls, options, votes, nextPollId, calls>>

\* getPollById, third query: the options in idx order.
getPollByIdOptions(h) ==
  /\ page.h[h].pc = "queryOptions"
  /\ \E optionsError \in QueryErrors :
       page' = IF optionsError # NoError
                 THEN fetchPollEnd(h, NullDetails)
                 ELSE [page EXCEPT !.h[h].pc = "queryCounts",
                                   !.h[h].optionsData = OrderByIdx(OptionsOf(PagePoll))]
  /\ UNCHANGED <<polls, options, votes, nextPollId, calls>>

\* The poll getPollById returns after its fourth query (poll_option_counts
\* for the option ids it has read); an error there gives every count as 0.
getPollByIdResult(h, voteCountsError) ==
  LET optionsData == page.h[h].optionsData
      optionIds == {optionsData[i].id : i \in 1..Len(optionsData)}
      voteCountsRaw == AsList({c \in PollOptionCounts : c.option_id \in optionIds})
      voteCountsMap == IF voteCountsError # NoError THEN EmptyMap
                       ELSE VoteCountsByOption(voteCountsRaw, EmptyMap)
      poll == page.h[h].poll
  IN [id |-> poll.id, question |-> poll.question, description |-> poll.description,
      options |-> FormatOptions(optionsData, voteCountsMap),
      totalVotes |-> ReduceVotes(optionsData, voteCountsMap),
      hasVoted |-> page.h[h].hasVoted, isOwner |-> page.h[h].isOwner]

\* getPollById, fourth query and return, and the rest of fetchPoll.
getPollByIdCounts(h) ==
  /\ page.h[h].pc = "queryCounts"
  /\ \E voteCountsError \in QueryErrors :
       page' = fetchPollEnd(h, getPollByIdResult(h, voteCountsError))
  /\ UNCHANGED <<polls, options, votes, nextPollId, calls>>

\* RadioGroup onValueChange={setSelectedOption}, over the options shown.
setSelectedOption ==
  /\ VotingForm
  /\ \E i \in 1..Len(page.pollData.options) :
       /\ i <= MinOptions
       /\ page' = [page EXCEPT !.selectedOption = page.pollData.options[i].id]
  /\ UNCHANGED <<polls, options, votes, nextPollId, calls>>

\* A handleVote without its first line.
handleVoteUnguarded(h) ==
  /\ h \in Procs /\ page.h[h].pc = "idle" /\ Idle(h)
  /\ SubmitOffered
  /\ page' = [page EXCEPT !.isCastingVote = TRUE, !.voteMessage = NULL,
                          !.h[h].pc = "castVote"]
  /\ calls' = [calls EXCEPT ![h] =
       [IdleCall EXCEPT !.op = "castVote", !.pc = "rpc", !.user = page.session,
          !.pollId = PagePoll, !.optionId = page.selectedOption,
          !.hadVoted = UniqueViolation(PagePoll, AuthUid(page.session))]]
  /\ UNCHANGED <<polls, options, votes, nextPollId>>

\* handleVote up to its await: the early return, setIsCastingVote(true),
\* setVoteMessage(null), and castVote(pollId, selectedOption) up to its store
\* call. It runs on a click on the button, or on any other call.
handleVote(h) ==
  /\ h \in Procs /\ page.h[h].pc = "idle" /\ Idle(h)
  /\ SubmitOffered
  /\ IF page.selectedOption = BogusOption \/ page.isCastingVote
       THEN UNCHANGED <<calls, page>>
       ELSE /\ page' = [page EXCEPT !.isCastingVote = TRUE, !.voteMessage = NULL,
                                    !.h[h].pc = "castVote"]
            /\ calls' = [calls EXCEPT ![h] =
                 [IdleCall EXCEPT !.op = "castVote", !.pc = "rpc",
                    !.user = page.session,
                    !.pollId = PagePoll, !.optionId = page.selectedOption,
                    !.hadVoted = UniqueViolation(PagePoll, AuthUid(page.session))]]
  /\ UNCHANGED <<polls, options, votes, nextPollId>>

\* handleVote after castVote returned: on success setVoted(true), the
\* message, and fetchPoll up to its await (which clears the message); on
\* failure the message and setIsCastingVote(false).
handleVoteReturn(h) ==
  /\ h \in Procs /\ page.h[h].pc = "castVote" /\ calls[h].pc = "done"
  /\ page' = IF calls[h].res.success
               THEN [page EXCEPT !.voted = TRUE, !.voteMessage = NULL,
                                 !.loading = TRUE, !.error = FALSE,
                                 !.h[h].pc = "queryPoll"]
               ELSE [page EXCEPT !.voteMessage = calls[h].res.message,
                                 !.isCastingVote = FALSE, !.h[h] = IdleHandler]
  /\ UNCHANGED <<polls, options, votes, nextPollId, calls>>

\* ================================================================ claims
Done(p, op) == calls[p].op = op /\ calls[p].pc = "done"
VoteOk == "Vote cast successfully!"

\* The rows of votes of one (poll, voter identity) pair.
VotesOfPair(pollId, identity) ==
  {v \in VotesOf(pollId) : VoterIdentity(v) = identity}

\* C1: in every reachable state of the store there is at most one vote row
\* for each (poll, voter identity) pair.
C1_OneVotePerPair ==
  \A v \in VoteRows : CountRows(VotesOfPair(v.poll_id, VoterIdentity(v))) <= 1

\* A repeated vote was refused while the poll holds votes of two voters.
C1_Witness ==
  /\ Done(1, "castVote") /\ calls[1].res.message = "AlreadyVoted"
  /\ \E v, w \in VotesOf(calls[1].pollId) : v.voter_uid # w.voter_uid

\* C2: two castVote calls with the same (pollId, voterId), however their
\* steps interleave, never both succeed; when neither voter row existed
\* before and both calls got the store's verdict on uniqueness, exactly one
\* succeeds and the other fails with AlreadyVoted; and a vote row is only
\* ever added by the single cast_vote call of a castVote whose voter had no
\* row for the poll in the state that call ran in.
SamePair(p, q) ==
  /\ Done(p, "castVote") /\ Done(q, "castVote")
  /\ calls[p].pollId = calls[q].pollId
  /\ calls[p].user = calls[q].user
  /\ calls[p].user \in Users

C2_NoTwoSuccesses ==
  \A p, q \in Procs :
    (p # q /\ SamePair(p, q)) =>
      /\ ~(calls[p].res.success /\ calls[q].res.success)
      /\ ( /\ ~calls[p].hadVoted /\ ~calls[q].hadVoted
           /\ {calls[p].res.message, calls[q].res.message} \subseteq {VoteOk, "AlreadyVoted"} )
         => {calls[p].res.message, calls[q].res.message} = {VoteOk, "AlreadyVoted"}

C2_CheckAndInsertInOneCall ==
  BagCardinality(votes') > BagCardinality(votes) =>
    \E p \in Procs :
      /\ calls[p].op = "castVote" /\ calls[p].pc = "rpc"
      /\ calls'[p].pc = "done" /\ calls'[p].res.success
      /\ ~UniqueViolation(calls[p].pollId, AuthUid(calls[p].user))
      /\ BagCardinality(votes') = BagCardinality(votes) + 1

C2_ConcurrentCastVote == [](C2_NoTwoSuccesses) /\ [][C2_CheckAndInsertInOneCall]_vars

\* Both concurrent calls of one voter on one poll have returned: one holds
\* the success, the other AlreadyVoted.
C2_Witness ==
  /\ SamePair(1, 2)
  /\ ~calls[1].hadVoted /\ ~calls[2].hadVoted
  /\ calls[1].res.success /\ calls[2].res.message = "AlreadyVoted"

\* C3: a castVote that fails with AlreadyVoted leaves the store unchanged: no
\* vote row is added or altered, and the option counts and the total that
\* getPollById reads are the same as before, whichever option the call named.
C3_Step(p) ==
  /\ CastVoteRpc(p)
  /\ calls'[p].res.message = "AlreadyVoted"

C3_AlreadyVotedChangesNothing ==
  [][\A p \in Procs :
       C3_Step(p) =>
         /\ votes' = votes /\ polls' = polls /\ options' = options
         /\ \A id \in PollIds :
              getPollById(id, calls[p].user, NoError)' = getPollById(id, calls[p].user, NoError)]_vars

\* A repeated vote that named another option than the recorded one was refused.
C3_Witness ==
  \E p \in Procs :
    /\ Done(p, "castVote") /\ calls[p].res.message = "AlreadyVoted"
    /\ \E v \in VotesOfPair(calls[p].pollId, calls[p].user) :
         v.option_id # calls[p].optionId

\* C4: once castVote(pollId, optionId) by voter V has returned success, every
\* getPollById(pollId) read while the poll exists counts V's vote for
\* optionId and in totalVotes, on top of the other voters' votes, and reports
\* hasVoted for V.
OthersVotes(pollId, voter) == {v \in VotesOf(pollId) : v.voter_uid # voter}

C4_ReadAfterWrite ==
  \A p \in Procs :
    (Done(p, "castVote") /\ calls[p].res.success /\ PollExists(calls[p].pollId)) =>
      LET d == getPollById(calls[p].pollId, calls[p].user, NoError)
          o == calls[p].optionId
      IN /\ d.id = calls[p].pollId
         /\ d.hasVoted
         /\ d.totalVotes >= 1 + CountRows(OthersVotes(calls[p].pollId, calls[p].user))
         /\ \E i \in 1..Len(d.options) :
              /\ d.options[i].id = o
              /\ d.options[i].votes >=
                   1 + CountRows({v \in OthersVotes(calls[p].pollId, calls[p].user) :
                                    v.option_id = o})

\* A vote has succeeded for an option another voter had already chosen.
C4_Witness ==
  \E p \in Procs :
    /\ Done(p, "castVote") /\ calls[p].res.success /\ PollExists(calls[p].pollId)
    /\ \E v \in OthersVotes(calls[p].pollId, calls[p].user) :
         v.option_id = calls[p].optionId

\* The sum of the option counts of a getPollById result.
RECURSIVE SumVotes(_)
SumVotes(opts) == IF opts = << >> THEN 0 ELSE Head(opts).votes + SumVotes(Tail(opts))

\* The entry of poll pollId in a getPolls result, as a set (empty if absent).
Find(list, pollId) == {list[i] : i \in {j \in 1..Len(list) : list[j].id = pollId}}

\* C5: for every poll, the sum of the per-option counts of getPollById equals
\* the totalVotes getPolls reports for it on the owner's list, both read
\* against the same store state (the earlier query-based pair and the
\* function-based pair of reads alike).
C5_SumEqualsTotal ==
  \A r \in polls :
    /\ Find(getPollsLegacy(r.owner_id, NoError), r.id) # {}
    /\ \A e \in Find(getPollsLegacy(r.owner_id, NoError), r.id) :
         e.totalVotes = SumVotes(getPollByIdLegacy(r.id, r.owner_id, NoError).options)
    /\ Find(getPolls(r.owner_id, NoError), r.id) # {}
    /\ \A e \in Find(getPolls(r.owner_id, NoError), r.id) :
         e.totalVotes = SumVotes(getPollById(r.id, r.owner_id, NoError).options)

\* A poll holds votes for two different options.
C5_Witness ==
  \E r \in polls : \E v, w \in VotesOf(r.id) : v.option_id # w.option_id

\* C6: a poll created with N options on which no vote was cast reads as
\* exactly N options with votes = 0 and totalVotes = 0; and every option row
\* of a poll is in the result with a count, votes or not.
ZeroVoteResult(d, n) ==
  /\ Len(d.options) = n
  /\ \A i \in 1..Len(d.options) : d.options[i].votes = 0
  /\ d.totalVotes = 0

AllOptionsListed(d, pollId) ==
  /\ Len(d.options) = Cardinality(OptionsOf(pollId))
  /\ \A o \in OptionsOf(pollId) :
       \E i \in 1..Len(d.options) :
         d.options[i].id = o.id /\ d.options[i].votes \in Nat

C6_ZeroVoteCompleteness ==
  /\ \A p \in Procs :
       ( /\ Done(p, "createPoll") /\ calls[p].res.success
         /\ PollExists(calls[p].pollId) /\ VotesOf(calls[p].pollId) = {} ) =>
         /\ ZeroVoteResult(getPollByIdLegacy(calls[p].pollId, NoUser, NoError),
                           Len(calls[p].data.options))
         /\ ZeroVoteResult(getPollById(calls[p].pollId, NoUser, NoError),
                           Len(calls[p].data.options))
  /\ \A r \in polls :
       /\ AllOptionsListed(getPollByIdLegacy(r.id, NoUser, NoError), r.id)
       /\ AllOptionsListed(getPollById(r.id, NoUser, NoError), r.id)

\* A three-option poll has just been created, and another poll has a vote
\* on one option and none on the other.
C6_Witness ==
  /\ Done(1, "createPoll") /\ calls[1].res.success
  /\ Len(calls[1].data.options) = 3
  /\ PollExists(calls[1].pollId) /\ VotesOf(calls[1].pollId) = {}
  /\ \E r \in polls : VotesOf(r.id) # {}

\* C7: when createPoll's option insert fails after its poll insert succeeded,
\* no poll row of that call is in the store once createPoll has returned
\* its failure.
C7_NoPollAfterFailedOptions ==
  \A p \in Procs :
    (Done(p, "createPoll") /\ calls[p].res.message = "Failed to create poll options.")
      => ~PollExists(calls[p].pollId)

\* C8: in every reachable state of the store, the states between createPoll's
\* two inserts included, every poll row (each of them listed by its owner's
\* getPolls) has at least two option rows, and a getPollById evaluated in
\* that state returns at least two options for it.
C8_NoPollBelowTwoOptions ==
  \A r \in polls :
    /\ Find(getPolls(r.owner_id, NoError), r.id) # {}
    /\ Cardinality(OptionsOf(r.id)) >= MinOptions
    /\ Len(getPollById(r.id, NoUser, NoError).options) >= MinOptions
    /\ Len(getPollByIdLegacy(r.id, NoUser, NoError).options) >= MinOptions

\* An authenticated caller who does not own the existing poll the call names.
NonOwner(user, pollId) ==
  /\ user \in Users
  /\ PollExists(pollId)
  /\ PollRow(pollId).owner_id # user

\* C9: an updatePollQuestion or deleteVote step taken by an authenticated
\* user who is not the owner of the poll it names changes no poll row, no
\* option row and no vote row.
C9_NonOwnerChangesNothing ==
  [][\A p \in Procs :
       ( /\ calls'[p].op \in {"updatePollQuestion", "deleteVote"}
         /\ NonOwner(calls'[p].user, calls'[p].pollId)
         /\ UpdatePollQuestion(p) \/ DeleteVote(p) )
       => /\ polls' = polls /\ options' = options /\ votes' = votes
          /\ PollRow(calls'[p].pollId) \in polls']_vars

\* A non-owner's delete of a poll that holds options and a vote has returned.
C9_Witness ==
  \E p \in Procs :
    /\ Done(p, "deleteVote")
    /\ NonOwner(calls[p].user, calls[p].pollId)
    /\ OptionsOf(calls[p].pollId) # {}
    /\ VotesOf(calls[p].pollId) # {}

\* C10: an updatePollQuestion or deleteVote that an authenticated non-owner
\* made on an existing poll has returned a failure whose message is
\* Unauthorized, never a success.
C10_NonOwnerGetsUnauthorized ==
  \A p \in Procs :
    ( /\ Done(p, "updatePollQuestion") \/ Done(p, "deleteVote")
      /\ NonOwner(calls[p].user, calls[p].pollId) )
    => /\ ~calls[p].res.success
       /\ calls[p].res.message = "Unauthorized"

\* The owner's deleteVote of an existing poll is returning success.
OwnerDeletes(p) ==
  /\ calls'[p].op = "deleteVote" /\ calls'[p].res.success
  /\ calls'[p].user \in Users
  /\ PollExists(calls'[p].pollId)
  /\ PollRow(calls'[p].pollId).owner_id = calls'[p].user
  /\ DeleteVote(p)

\* Nothing of poll pollId is left: no poll, option or vote row, and
\* getPollById reads not-found for every viewer.
Gone(pollId) ==
  /\ ~PollExists(pollId)
  /\ OptionsOf(pollId) = {}
  /\ VotesOf(pollId) = {}
  /\ \A user \in Sessions :
       /\ getPollById(pollId, user, NoError) = NullDetails
       /\ getPollByIdLegacy(pollId, user, NoError) = NullDetails

\* C11: the step in which the owner's deleteVote(pollId) succeeds leaves no
\* poll, option or vote row of pollId, and from then on (a poll id is never
\* handed out twice) every state has no row of it and getPollById(pollId)
\* returns null.
C11_DeleteStep ==
  \A p \in Procs : \A id \in PollIds :
    (id = calls'[p].pollId /\ OwnerDeletes(p)) => Gone(id)'

C11_StaysGone ==
  \A id \in PollIds : (id < nextPollId /\ ~PollExists(id)) => Gone(id)

C11_NeverBack ==
  \A id \in PollIds : (id < nextPollId /\ ~PollExists(id)) => ~PollExists(id)'

C11_DeletionCascade ==
  [](C11_StaysGone) /\ [][C11_DeleteStep /\ C11_NeverBack]_vars

\* The owner's delete has returned success for a poll on which the other
\* request had cast a vote.
C11_Witness ==
  \E p, q \in Procs :
    /\ Done(p, "deleteVote") /\ calls[p].res.success
    /\ calls[p].user \in Users
    /\ calls[p].pollId < nextPollId /\ ~PollExists(calls[p].pollId)
    /\ Done(q, "castVote") /\ calls[q].res.success
    /\ calls[q].pollId = calls[p].pollId

\* optionId is one of the option rows of poll pollId.
IsOptionOf(pollId, optionId) ==
  \E o \in options : o.id = optionId /\ o.poll_id = pollId

\* C12: a castVote whose optionId is not an option of its pollId does not
\* succeed and adds no vote row; when its store call was answered by
\* cast_vote the failure is InvalidOption; and in every reachable state each
\* vote row's option is an option row of the vote's own poll.
C12_VotesReferOwnOptions ==
  \A v \in VoteRows :
    /\ IsOptionOf(v.poll_id, v.option_id)
    /\ \A o \in options : o.id = v.option_id => o.poll_id = v.poll_id

C12_InvalidOptionStep ==
  \A p \in Procs :
    ( /\ calls[p].op = "castVote" /\ calls[p].pc = "rpc"
      /\ ~IsOptionOf(calls[p].pollId, calls[p].optionId)
      /\ CastVoteRpc(p) )
    => /\ ~calls'[p].res.success
       /\ votes' = votes
       /\ calls'[p].res.message \in {"InvalidOption", "StoreError", "Failed to cast vote."}

C12_InvalidOption ==
  [](C12_VotesReferOwnOptions) /\ [][C12_InvalidOptionStep]_vars

\* A logged-in voter's castVote on an existing poll, naming an option of
\* another poll, has failed with InvalidOption while votes exist.
C12_Witness ==
  \E p \in Procs :
    /\ Done(p, "castVote") /\ calls[p].res.message = "InvalidOption"
    /\ calls[p].user \in Users
    /\ PollExists(calls[p].pollId)
    /\ \E o \in options : o.id = calls[p].optionId /\ o.poll_id # calls[p].pollId
    /\ VoteRows # {}

\* Form data that breaks one of the schema's rules, in the rules' words.
BadQuestion(q) == Len(Trim(q)) = 0 \/ Len(Trim(q)) > MaxQuestionLen
BadOptionCount(os) == Len(os) < MinOptions \/ Len(os) > MaxOptions
BadOptionText(os) ==
  \E i \in 1..Len(os) : Len(Trim(os[i])) = 0 \/ Len(Trim(os[i])) > MaxOptionLen
BadInput(data) ==
  BadQuestion(data.question) \/ BadOptionCount(data.options) \/ BadOptionText(data.options)

\* C13: a createPoll by a logged-in user whose input breaks the schema
\* (question empty or over 280 characters after trimming, fewer than 2 or
\* more than 20 options, an option text empty or over 140 characters after
\* trimming) ends in its first step with the validation errors, having
\* written no poll row and no option row.
C13_InvalidInputWritesNothing ==
  [][\A p \in Procs :
       ( /\ calls'[p].op = "createPoll"
         /\ calls'[p].user \in Users
         /\ BadInput(calls'[p].data)
         /\ CreatePollBegin(p) )
       => /\ calls'[p].pc = "done"
          /\ calls'[p].res = [success |-> FALSE, message |-> "errors"]
          /\ polls' = polls /\ options' = options /\ votes' = votes
          /\ nextPollId' = nextPollId]_vars

\* A createPoll with a question over the limit was turned down while the
\* store holds a poll.
C13_Witness ==
  \E p \in Procs :
    /\ Done(p, "createPoll") /\ calls[p].res.message = "errors"
    /\ Len(calls[p].data.question) > MaxQuestionLen
    /\ polls # {}

\* C14: in every reachable state every stored poll's question has 1 to 280
\* characters after trimming, whatever createPoll and updatePollQuestion
\* calls were made.
C14_QuestionNonEmpty ==
  \A r \in polls :
    /\ Len(Trim(r.question)) >= MinQuestionLen
    /\ Len(Trim(r.question)) <= MaxQuestionLen

\* C15: a poll row enters the store only by createPoll's insert, with the
\* logged-in caller as owner_id; no step changes the owner_id of a poll
\* that stays; updatePollQuestion changes nothing besides the question and
\* the description of poll rows; castVote changes no poll row.
C15_OwnerSetOnce ==
  \A r2 \in polls' :
    IF \E r \in polls : r.id = r2.id
      THEN \A r \in polls : r.id = r2.id => r.owner_id = r2.owner_id
      ELSE \E p \in Procs :
             /\ calls[p].op = "createPoll" /\ calls[p].pc = "insertPoll"
             /\ calls[p].user \in Users
             /\ r2.owner_id = calls[p].user

C15_UpdateFrame ==
  \A p \in Procs :
    ( /\ calls'[p].op = "updatePollQuestion"
      /\ <<polls, options, votes>>' # <<polls, options, votes>>
      /\ UpdatePollQuestion(p) ) =>
      /\ options' = options /\ votes' = votes
      /\ Cardinality(polls') = Cardinality(polls)
      /\ \A r \in polls : \E r2 \in polls' :
           [r2 EXCEPT !.question = r.question, !.description = r.description] = r

C15_CastVoteFrame ==
  \A p \in Procs :
    (calls'[p].op = "castVote" /\ polls' # polls) =>
      ~(CastVoteBegin(p) \/ CastVoteRpc(p))

C15_OwnerImmutable ==
  [][C15_OwnerSetOnce /\ C15_UpdateFrame /\ C15_CastVoteFrame]_vars

\* The owner's update has changed the question of a poll that holds a vote.
C15_Witness ==
  \E p \in Procs :
    /\ Done(p, "updatePollQuestion") /\ calls[p].res.success
    /\ PollExists(calls[p].pollId)
    /\ PollRow(calls[p].pollId).owner_id = calls[p].user
    /\ PollRow(calls[p].pollId).question = QNew
    /\ PollRow(calls[p].pollId).title # QNew
    /\ VotesOf(calls[p].pollId) # {}

\* C16: a createPoll made without a logged-in user ends in its first step
\* with the redirect to the login page, whether its input is valid or not,
\* having written no poll row and no option row.
C16_NoUserNoWrite ==
  [][\A p \in Procs :
       ( /\ calls'[p].op = "createPoll"
         /\ calls'[p].user = NoUser
         /\ CreatePollBegin(p) )
       => /\ calls'[p].pc = "done"
          /\ calls'[p].res = [success |-> FALSE, message |-> "redirect:/login"]
          /\ polls' = polls /\ options' = options /\ votes' = votes
          /\ nextPollId' = nextPollId]_vars

\* A visitor's createPoll with input that breaks the schema was redirected
\* to the login page while the store holds a poll.
C16_Witness ==
  \E p \in Procs :
    /\ Done(p, "createPoll") /\ calls[p].user = NoUser
    /\ calls[p].res.message = "redirect:/login"
    /\ BadInput(calls[p].data)
    /\ polls # {}

\* A getPolls result lists exactly the polls owned by user, each once and
\* with the number of its votes.
ListsOwnPolls(list, user) ==
  /\ {list[i].id : i \in 1..Len(list)} = {r.id : r \in {x \in polls : x.owner_id = user}}
  /\ Len(list) = Cardinality({x \in polls : x.owner_id = user})
  /\ \A i \in 1..Len(list) : list[i].totalVotes = CountRows(VotesOf(list[i].id))

\* C17: for every logged-in user U, getPolls returns exactly the polls whose
\* owner_id is U: each of them once, those without votes included with
\* totalVotes 0, and no poll of another owner.
C17_GetPollsListsOwnPolls ==
  \A user \in Users :
    /\ ListsOwnPolls(getPolls(user, NoError), user)
    /\ ListsOwnPolls(getPollsLegacy(user, NoError), user)

\* Two polls of different owners exist, one with a vote and one without.
C17_Witness ==
  \E r1, r2 \in polls :
    /\ r1.owner_id # r2.owner_id
    /\ VotesOf(r1.id) # {}
    /\ VotesOf(r2.id) = {}
    /\ OptionsOf(r2.id) # {}

C19_IsOwnerIffOwner ==
  \A r \in polls : \A user \in Sessions :
    LET owns == user \in Users /\ r.owner_id = user
    IN /\ getPollById(r.id, user, NoError).isOwner = owns
       /\ getPollByIdLegacy(r.id, user, NoError).isOwner = owns

\* A poll is read by its owner and by another logged-in user who has voted
\* on it.
C19_Witness ==
  \E r \in polls : \E user \in Users :
    /\ r.owner_id # user
    /\ \E v \in VotesOf(r.id) : v.voter_uid = user
    /\ getPollById(r.id, r.owner_id, NoError).isOwner
    /\ ~getPollById(r.id, user, NoError).isOwner

\* The count getPollById reports for option optionId (0 when not listed).
VotesShown(d, optionId) ==
  LET hits == {i \in 1..Len(d.options) : d.options[i].id = optionId}
  IN IF hits = {} THEN 0 ELSE d.options[CHOOSE i \in hits : TRUE].votes

\* C20: in every step, each vote row of a poll that still exists afterwards
\* is kept as it is (same poll, option and voter); a vote row goes away only
\* in a deleteVote step that removes its poll; and for a poll that exists
\* before and after the step no option's count and no total that
\* getPollById reports decreases.
C20_RowsKept ==
  \A v \in VoteRows :
    <<polls, votes>>' = <<polls, votes>> \/
    IF \E r \in polls' : r.id = v.poll_id
      THEN v \in BagToSet(votes') /\ votes'[v] >= votes[v]
      ELSE \E p \in Procs : calls'[p].op = "deleteVote" /\ calls'[p].pollId = v.poll_id

C20_CountsGrow ==
  \A id \in PollIds :
    ( /\ <<polls, options, votes>>' # <<polls, options, votes>>
      /\ PollExists(id) /\ PollExists(id)' ) =>
      /\ getPollById(id, NoUser, NoError)'.totalVotes
           >= getPollById(id, NoUser, NoError).totalVotes
      /\ \A o \in OptionsOf(id) :
           VotesShown(getPollById(id, NoUser, NoError)', o.id)
             >= VotesShown(getPollById(id, NoUser, NoError), o.id)

C20_VotesAppendOnly == [][C20_RowsKept /\ C20_CountsGrow]_vars

\* A poll holds the votes of two voters, the later one cast after a repeated
\* vote of the first voter was turned down.
C20_Witness ==
  \E p, q \in Procs :
    /\ p # q
    /\ Done(p, "castVote") /\ calls[p].res.message = "AlreadyVoted"
    /\ Done(q, "castVote") /\ calls[q].res.success
    /\ calls[p].pollId = calls[q].pollId /\ calls[p].user # calls[q].user
    /\ PollExists(calls[p].pollId)
    /\ CountRows(VotesOf(calls[p].pollId)) = 2

\* C21: in every reachable state, those after a failed operation included,
\* every option row's poll exists, and every vote row's poll exists and its
\* option is an existing option row of that poll.
C21_NoOrphans ==
  /\ \A o \in options : \E r \in polls : r.id = o.poll_id
  /\ \A v \in VoteRows :
       /\ \E r \in polls : r.id = v.poll_id
       /\ \E o \in options : o.id = v.option_id /\ o.poll_id = v.poll_id

\* A createPoll whose poll was deleted by the other request before its
\* option insert has returned its failure.
C21_Witness ==
  \E p, q \in Procs :
    /\ Done(p, "createPoll")
    /\ calls[p].res.message = "Failed to create poll options."
    /\ calls[p].pollId < nextPollId /\ ~PollExists(calls[p].pollId)
    /\ Done(q, "deleteVote") /\ calls[q].res.success
    /\ calls[q].pollId = calls[p].pollId
    /\ calls[q].user = calls[p].user

\* C22: in every reachable state each vote row carries a voter_uid or an
\* anon_fingerprint; and the row a successful castVote adds carries the id
\* of its logged-in caller.
C22_IdentityPresent ==
  \A v \in VoteRows : v.voter_uid # NULL \/ v.anon_fingerprint # NULL

C22_RowOfCaller ==
  \A p \in Procs :
    ( /\ calls[p].op = "castVote" /\ calls[p].pc = "rpc"
      /\ calls'[p].res.success
      /\ CastVoteRpc(p) )
    => /\ calls[p].user \in Users
       /\ \E v \in BagToSet(votes') :
            /\ v.voter_uid = calls[p].user
            /\ v.poll_id = calls[p].pollId /\ v.option_id = calls[p].optionId
            /\ votes' = votes (+) SetToBag({v})

C23_GetPollsWithoutUser ==
  \A user \in Sessions : \A getUserError \in BOOLEAN :
    (user = NoUser \/ getUserError) =>
      /\ getPollsCall(user, getUserError, NoError) = [result |-> << >>, queries |-> << >>]
      /\ getPollsLegacyCall(user, getUserError, NoError, NoError)
           = [result |-> << >>, queries |-> << >>]

\* A user owns a poll that holds a vote, so that the list would not be
\* empty had the session been read.
C23_Witness ==
  \E r \in polls :
    /\ VotesOf(r.id) # {}
    /\ getPollsCall(r.owner_id, FALSE, NoError).result # << >>
    /\ getPollsCall(r.owner_id, TRUE, NoError).result = << >>

\* C24: the step in which castVote's store call returns: success is
\* reported exactly when the store reported no error (and then a vote row
\* was added, the message is "Vote cast successfully!" and the poll page
\* and the list are invalidated); on an error the result is a failure with
\* the store's message, or "Failed to cast vote." when it has none, and
\* nothing is invalidated.
C24_Step(p) ==
  /\ calls[p].op = "castVote" /\ calls[p].pc = "rpc"
  /\ calls'[p].pc = "done"
  /\ CastVoteRpc(p)

C24_CastVoteResult ==
  [][\A p \in Procs :
       C24_Step(p) =>
         LET err == calls'[p].error
             res == calls'[p].res
         IN /\ res.success = (err = NoError)
            /\ (err = NoError) = (BagCardinality(votes') = BagCardinality(votes) + 1)
            /\ err = NoError =>
                 /\ res.message = "Vote cast successfully!"
                 /\ calls'[p].revalidated = {<<"/polls", calls[p].pollId>>, <<"/polls">>}
            /\ err # NoError =>
                 /\ res.message = (IF err = "" THEN "Failed to cast vote." ELSE err)
                 /\ calls'[p].revalidated = {}
                 /\ votes' = votes]_vars

\* One castVote has succeeded on a poll and another has failed on an error
\* that carries no message.
C24_Witness ==
  \E p, q \in Procs :
    /\ Done(p, "castVote") /\ calls[p].res.success
    /\ calls[p].revalidated = {<<"/polls", calls[p].pollId>>, <<"/polls">>}
    /\ Done(q, "castVote") /\ calls[q].res.message = "Failed to cast vote."
    /\ calls[q].revalidated = {}
    /\ calls[q].pollId = calls[p].pollId

\* C25: a deleteVote on a poll id that names no poll (never created, or
\* deleted before) changes no row, and unless the store call itself fails
\* it returns success just as a delete that removed the poll.
C25_DeleteIdempotent ==
  [][\A p \in Procs :
       ( /\ calls'[p].op = "deleteVote"
         /\ ~PollExists(calls'[p].pollId)
         /\ DeleteVote(p) )
       => /\ polls' = polls /\ options' = options /\ votes' = votes
          /\ calls'[p].res.success = (calls'[p].error = NoError)
          /\ calls'[p].error = NoError =>
               calls'[p].res = [success |-> TRUE, message |-> "Poll deleted successfully."]]_vars

\* The same user's deleteVote of one poll id has returned success twice,
\* and the poll, once created, is gone.
C25_Witness ==
  \E p, q \in Procs :
    /\ p # q
    /\ Done(p, "deleteVote") /\ calls[p].res.success
    /\ Done(q, "deleteVote") /\ calls[q].res.success
    /\ calls[p].pollId = calls[q].pollId /\ calls[p].user = calls[q].user
    /\ calls[p].user \in Users
    /\ calls[p].pollId < nextPollId /\ ~PollExists(calls[p].pollId)

\* C26: in every reachable state, for every logged-in user, a getPolls
\* whose polls query succeeds and whose vote count query fails returns each
\* poll of the user once, with totalVotes 0.
C26_CountErrorFallback ==
  \A user \in Users :
    LET list == getPollsLegacyCall(user, FALSE, NoError, "StoreError").result
        mine == {r \in polls : r.owner_id = user}
    IN /\ Len(list) = Cardinality(mine)
       /\ {list[i].id : i \in 1..Len(list)} = {r.id : r \in mine}
       /\ \A i \in 1..Len(list) : list[i].totalVotes = 0

\* A user owns two polls, one of which holds a vote.
C26_Witness ==
  \E r1, r2 \in polls :
    /\ r1.id # r2.id /\ r1.owner_id = r2.owner_id
    /\ VotesOf(r1.id) # {}
    /\ Len(getPollsLegacyCall(r1.owner_id, FALSE, NoError, "StoreError").result) = 2

\* The option texts of a getPollById result, in the order returned.
TextsOf(details) == [i \in 1..Len(details.options) |-> details.options[i].text]

FetchPcs == {"queryPoll", "queryVote", "queryOptions", "queryCounts"}

\* C28: whenever the fetchPoll that handleVote awaits after a successful
\* castVote completes, the page has voted = true and does not offer the
\* Submit Vote button.
C28_VotedAfterRefetch ==
  [][\A h \in Procs :
       (page.h[h].pc \in FetchPcs /\ page'.h[h].pc = "idle")
         => (page'.voted /\ ~SubmitOffered')]_vars

\* C29: in every reachable state at most one handleVote of the page waits
\* on a castVote request, the request carries a selected option, and
\* isCastingVote is true exactly while a handleVote is under way (so it is
\* false again after a failed and after a successful vote).
C29_SingleFlight ==
  /\ Cardinality({h \in Procs : page.h[h].pc = "castVote"}) <= 1
  /\ \A h \in Procs :
       page.h[h].pc = "castVote" =>
         /\ calls[h].op = "castVote"
         /\ calls[h].optionId # BogusOption
  /\ page.isCastingVote <=> \E h \in Procs : page.h[h].pc # "idle"

\* A vote of the page has failed: the message is shown, no handleVote is
\* under way, and the button is offered and enabled for another try.
C29_Witness ==
  /\ page.voteMessage # NULL
  /\ ~page.isCastingVote
  /\ \A h \in Procs : page.h[h].pc = "idle"
  /\ SubmitOffered
  /\ page.selectedOption # BogusOption

\* C30: the last poll getPollById returned to the page is consistent:
\* totalVotes is the sum of the option counts, and hasVoted implies
\* totalVotes >= 1.
C30_ResultConsistent ==
  page.pollData # NullDetails =>
    /\ page.pollData.totalVotes = SumVotes(page.pollData.options)
    /\ page.pollData.hasVoted => page.pollData.totalVotes >= 1

Step(p) ==
  \/ CreatePollBegin(p)
  \/ CreatePollInsertPoll(p)
  \/ CreatePollInsertOptions(p)
  \/ CastVoteBegin(p)
  \/ CastVoteRpc(p)
  \/ DeleteVote(p)
  \/ UpdatePollQuestion(p)

\* Requests served one at a time.
Next == Step(1) /\ UNCHANGED page

Spec == Init /\ [][Next]_vars

\* Two requests served concurrently, their store calls interleaved: poll
\* creation, voting and deletion racing on the poll with the last free id,
\* every earlier poll having been deleted.
InitRace ==
  /\ polls = {}
  /\ options = {}
  /\ votes = EmptyBag
  /\ nextPollId = MaxPolls
  /\ calls = [p \in Procs |-> IdleCall]
  /\ page = PageLoad(NoUser)

NextRace ==
  /\ \E p \in Procs :
       \/ CreatePollBegin(p)
       \/ CreatePollInsertPoll(p)
       \/ CreatePollInsertOptions(p)
       \/ CastVoteBegin(p)
       \/ CastVoteRpc(p)
       \/ DeleteVote(p)
  /\ UNCHANGED page

SpecRace == InitRace /\ [][NextRace]_vars

\* Requests served one at a time by the deployment whose createPoll leaves
\* idx out.
NextNoIdx ==
  /\ \/ CreatePollBegin(1)
     \/ CreatePollInsertPoll(1)
     \/ CreatePollInsertOptionsNoIdx(1)
     \/ CastVoteBegin(1)
     \/ CastVoteRpc(1)
     \/ DeleteVote(1)
  /\ UNCHANGED page

SpecNoIdx == Init /\ [][NextNoIdx]_vars

\* A poll page open in some session on a poll that u1 created, next to the
\* requests of other pages, which come in on the second slot: the page's
\* handlers interleave with votes on the poll and with its deletion. A slot
\* is not reused while handleVote waits on it.
InitPage ==
  LET data == SafeParseData([question |-> QPadded, options |-> <<TextA, TextB>>])
  IN /\ polls = {[id |-> PagePoll, owner_id |-> "u1", question |-> data.question,
                  title |-> data.question, description |-> NullDesc]}
     /\ options = pollOptions(data.options, PagePoll)
     /\ votes = EmptyBag
     /\ nextPollId = PagePoll + 1
     /\ calls = [p \in Procs |-> IdleCall]
     /\ page \in {PageLoad(session) : session \in Sessions}

NextPage ==
  \/ /\ \E p \in Procs :
          \/ CastVoteRpc(p)
          \/ /\ p # 1 /\ page.h[p].pc # "castVote"
             /\ \/ CastVoteBegin(p)
                \/ DeleteVote(p)
     /\ UNCHANGED page
  \/ \E h \in Handlers :
       \/ getPollByIdPoll(h)
       \/ getPollByIdVote(h)
       \/ getPollByIdOptions(h)
       \/ getPollByIdCounts(h)
       \/ handleVote(h)
       \/ handleVoteReturn(h)
  \/ setSelectedOption

SpecPage == InitPage /\ [][NextPage]_vars

====
